---- MODULE Spec2Model ----
(***************************************************************************)
(* Model of storage1d.py: TankConfig.validate and simulate_stratified_tank *)
(* (1D multi-node stratified storage tank), with the charging scenario of  *)
(* ExampleScript.py.                                                       *)
(*                                                                         *)
(* Numbers.  The program computes in IEEE doubles.  The model computes in  *)
(* exact rational arithmetic: a number is a pair <<n, d>> with d > 0 and   *)
(* gcd(n, d) = 1.  Rounding is therefore not modelled; every statement     *)
(* below is a statement about the real-number semantics of the update.     *)
(***************************************************************************)
EXTENDS Integers, Sequences, FiniteSets, TLC

----------------------------------------------------------------------------
(* Bounds of the model *)

MaxNodes == 3

MaxSteps == 2

MaxValidate == 2

----------------------------------------------------------------------------
(* Exact rational arithmetic standing for Python float arithmetic *)

Abs(x) == IF x < 0 THEN -x ELSE x

RECURSIVE GCD(_, _)
GCD(a, b) == IF b = 0 THEN a ELSE GCD(b, a % b)

\* n/d in lowest terms, denominator positive (d # 0)
Norm(n, d) ==
    LET s == IF d < 0 THEN -1 ELSE 1
        g == GCD(Abs(n), Abs(d))
    IN  <<(s * n) \div g, (s * d) \div g>>

\* float(x) of an integer x
R(x) == <<x, 1>>

RAdd(a, b) ==
    LET g == GCD(a[2], b[2])
    IN  Norm(a[1] * (b[2] \div g) + b[1] * (a[2] \div g), (a[2] \div g) * b[2])

RNeg(a) == <<-a[1], a[2]>>

RSub(a, b) == RAdd(a, RNeg(b))

RMul(a, b) ==
    LET g1 == GCD(Abs(a[1]), b[2])
        g2 == GCD(Abs(b[1]), a[2])
    IN  IF a[1] = 0 \/ b[1] = 0 THEN <<0, 1>>
        ELSE <<(a[1] \div g1) * (b[1] \div g2), (a[2] \div g2) * (b[2] \div g1)>>

\* a / b for b # 0
RDiv(a, b) == RMul(a, Norm(b[2], b[1]))

RLe(a, b) ==
    LET g == GCD(a[2], b[2])
    IN  a[1] * (b[2] \div g) <= b[1] * (a[2] \div g)

RLt(a, b) ==
    LET g == GCD(a[2], b[2])
    IN  a[1] * (b[2] \div g) < b[1] * (a[2] \div g)

RMin(a, b) == IF RLe(a, b) THEN a ELSE b

RAbs(a) == <<Abs(a[1]), a[2]>>

RECURSIVE RSum(_)
RSum(s) == IF s = <<>> THEN R(0) ELSE RAdd(s[1], RSum(Tail(s)))

Max(a, b) == IF a >= b THEN a ELSE b

----------------------------------------------------------------------------
(* State *)

VARIABLES
    cfg,         \* the TankConfig object (discharge_outlet is mutable)
    Tin_charge,  \* argument: charging inlet temperature series
    m_flow,      \* argument: signed mass flow series
    T_amb,       \* argument: ambient temperature series
    T_init,      \* argument: initial profile
    pc,          \* "caller", "run", "done" (returned) or "error" (raised)
    geom,        \* locals mass_node, ua_node, G_cond, computed once
    t,           \* loop index of the time march
    T,           \* rows of the temperature field computed so far
    Q_loss,      \* loss power series, filled so far
    Tn,          \* local Tn of the latest iteration as it stands at line 169
    vcalls       \* outcome of every cfg.validate() call so far

vars == <<cfg, Tin_charge, m_flow, T_amb, T_init, pc, geom, t, T, Q_loss, Tn, vcalls>>

----------------------------------------------------------------------------
(* TankConfig.validate *)

\* Mutant: the node count is tested against 1
PreChecksRaise_one_node(c) ==
    \/ c.n_nodes < 1
    \/ c.height <= 0
    \/ c.volume <= 0
    \/ (c.rho <= 0 \/ c.cp <= 0)
    \/ c.dt <= 0
    \/ c.n_steps < 1
    \/ ~(0 <= c.charge_inlet /\ c.charge_inlet < c.n_nodes)

\* The checks of validate that precede the sentinel normalisation; TRUE when
\* one of them raises ValueError.
PreChecksRaise(c) ==
    \/ c.n_nodes < 2
    \/ c.height <= 0
    \/ c.volume <= 0
    \/ (c.rho <= 0 \/ c.cp <= 0)
    \/ c.dt <= 0
    \/ c.n_steps < 1
    \/ ~(0 <= c.charge_inlet /\ c.charge_inlet < c.n_nodes)

\* if self.discharge_outlet == -1: self.discharge_outlet = self.n_nodes - 1
NormalizeOutlet(c) ==
    IF c.discharge_outlet = -1
    THEN [c EXCEPT !.discharge_outlet = c.n_nodes - 1]
    ELSE c

\* The final check of validate, on the normalised object.
OutletRaises(c) ==
    ~(0 <= c.discharge_outlet /\ c.discharge_outlet < c.n_nodes)

\* One call of cfg.validate(): whether it returns normally, and the object
\* as the call leaves it.
validate(c) ==
    IF PreChecksRaise(c)
    THEN [ok |-> FALSE, cfg |-> c]
    ELSE LET c2 == NormalizeOutlet(c)
         IN  [ok |-> ~OutletRaises(c2), cfg |-> c2]

\* What a validate call appends to the history of calls: the object before
\* the call, whether the call returned normally, the object after it.
CallRecord(c, v) == [before |-> c, ok |-> v.ok, after |-> v.cfg]

----------------------------------------------------------------------------
(* simulate_stratified_tank: input checks and set-up *)

\* Mutant: only an array that is too short is rejected
_check_len_short(arr, n) == Len(arr) < n

\* _check_len raises
_check_len(arr, n) == Len(arr) # n

\* The three _check_len calls and the T_init shape test; TRUE when one raises.
DimensionRaises(c, tin, mf, tamb, tinit) ==
    \/ _check_len(tin, c.n_steps)
    \/ _check_len(mf, c.n_steps)
    \/ _check_len(tamb, c.n_steps)
    \/ Len(tinit) # c.n_nodes

dz(c) == RDiv(R(c.height), R(c.n_nodes))

area_cross(c) == RDiv(R(c.volume), R(c.height))

vol_node(c) == RMul(area_cross(c), dz(c))

mass_node(c) == RMul(R(c.rho), vol_node(c))

ua_node(c) == IF c.ua_loss > 0 THEN RDiv(R(c.ua_loss), R(c.n_nodes)) ELSE R(0)

G_cond(c) ==
    IF c.k_cond > 0 THEN RDiv(RMul(R(c.k_cond), area_cross(c)), dz(c)) ELSE R(0)

Geometry(c) ==
    [mass_node |-> mass_node(c), ua_node |-> ua_node(c), G_cond |-> G_cond(c)]

NoGeometry == [mass_node |-> R(0), ua_node |-> R(0), G_cond |-> R(0)]

\* np.zeros(n)
Zeros(n) == [i \in 1..n |-> R(0)]

\* Mutant: row 0 is never assigned the initial profile (np.zeros left as is)
InitialField_unassigned(tinit) == <<Zeros(Len(tinit))>>

\* T = np.empty(...); T[0, :] = T_init -- the rows written so far
InitialField(tinit) == <<tinit>>

----------------------------------------------------------------------------
(* simulate_stratified_tank: one iteration of the time march *)

\* Arrays are 0-based in the program and 1-based here: node i is entry i+1.
At(v, i) == v[i + 1]

Put(v, i, x) == [v EXCEPT ![i + 1] = x]

\* mass_node * cfg.cp
HeatCap(c, g) == RMul(g.mass_node, R(c.cp))

\* Mutant: the loss is added instead of subtracted
LossPhase_added(c, g, v, tamb) ==
    IF RLt(R(0), g.ua_node)
    THEN [j \in 1..Len(v) |->
            RAdd(v[j], RDiv(RMul(RMul(g.ua_node, RSub(v[j], tamb)), R(c.dt)),
                            RMul(g.mass_node, R(c.cp))))]
    ELSE v

\* 1) Side losses: Tn - (ua_node * (Tn - T_amb[t]) * dt) / (mass_node * cp),
\*    applied when ua_node > 0.
LossPhase(c, g, v, tamb) ==
    IF RLt(R(0), g.ua_node)
    THEN [j \in 1..Len(v) |->
            RSub(v[j], RDiv(RMul(RMul(g.ua_node, RSub(v[j], tamb)), R(c.dt)),
                            HeatCap(c, g)))]
    ELSE v

\* Q_loss[t] = sum(ua_node * (T[t, :] - T_amb[t])) when ua_node > 0; the entry
\* keeps the 0 of np.zeros otherwise.
LossPower(g, row, tamb) ==
    IF RLt(R(0), g.ua_node)
    THEN RSum([j \in 1..Len(row) |-> RMul(g.ua_node, RSub(row[j], tamb))])
    ELSE R(0)

\* Mutant: the top stencil has its difference reversed
dT_cond_top_reversed(c, g, v) ==
    LET n == Len(v)
        k(x) == RDiv(RMul(RMul(g.G_cond, x), R(c.dt)), RMul(g.mass_node, R(c.cp)))
    IN  [j \in 1..n |->
            IF j = 1 THEN k(RSub(v[2], v[1]))
            ELSE IF j = n THEN k(RSub(v[n], v[n - 1]))
            ELSE k(RAdd(RSub(v[j - 1], v[j]), RSub(v[j + 1], v[j])))]

\* dT_cond, all entries from the same snapshot v
dT_cond(c, g, v) ==
    LET n == Len(v)
        k(x) == RDiv(RMul(RMul(g.G_cond, x), R(c.dt)), HeatCap(c, g))
    IN  [j \in 1..n |->
            IF j = 1 THEN k(RSub(v[2], v[1]))
            ELSE IF j = n THEN k(RSub(v[n - 1], v[n]))
            ELSE k(RAdd(RSub(v[j - 1], v[j]), RSub(v[j + 1], v[j])))]

\* 2) Axial conduction, applied when G_cond > 0.
ConductionPhase(c, g, v) ==
    IF RLt(R(0), g.G_cond)
    THEN LET d == dT_cond(c, g, v) IN [j \in 1..Len(v) |-> RAdd(v[j], d[j])]
    ELSE v

\* Mutant: the old value keeps its full weight, a + w * b
Mix_unweighted(w, a, b) == RAdd(a, RMul(w, b))

\* (1 - w) * a + w * b
Mix(w, a, b) == RAdd(RMul(RSub(R(1), w), a), RMul(w, b))

\* Mutant: the inlet mixing weight is not normalised by the node's new mass
Alpha_unnormalised(c, g, mf) == RDiv(RMul(mf, R(c.dt)), g.mass_node)

\* alpha = (mf * dt) / (mass_node + mf * dt)
Alpha(c, g, mf) ==
    RDiv(RMul(mf, R(c.dt)), RAdd(g.mass_node, RMul(mf, R(c.dt))))

\* Mutant: the min(1.0, .) clamp is missing
Frac_unclamped(c, g, m) == RDiv(RMul(m, R(c.dt)), g.mass_node)

\* Mutant: max in place of min
Frac_max(c, g, m) ==
    LET x == RDiv(RMul(m, R(c.dt)), g.mass_node)
    IN  IF RLe(R(1), x) THEN x ELSE R(1)

\* frac = min(1.0, (m * dt) / mass_node)
Frac(c, g, m) == RMin(R(1), RDiv(RMul(m, R(c.dt)), g.mass_node))

\* for i in range(i, stop): Tn[i + 1] = (1 - frac) * Tn[i + 1] + frac * Tn[i]
RECURSIVE ChargeLoop(_, _, _, _)
ChargeLoop(v, i, stop, frac) ==
    IF i >= stop THEN v
    ELSE ChargeLoop(Put(v, i + 1, Mix(frac, At(v, i + 1), At(v, i))),
                    i + 1, stop, frac)

\* Charging branch (mf > 0)
ChargePhase(c, g, v, mf, tin) ==
    LET i_in == c.charge_inlet
        v1   == Put(v, i_in, Mix(Alpha(c, g, mf), At(v, i_in), tin))
    IN  IF i_in < c.n_nodes - 1
        THEN ChargeLoop(v1, i_in, c.n_nodes - 1, Frac(c, g, mf))
        ELSE v1

\* for i in range(i, 0, -1): Tn[i] = (1 - frac) * Tn[i] + frac * Tn[i - 1]
RECURSIVE PullFromBelowLoop(_, _, _)
PullFromBelowLoop(v, i, frac) ==
    IF i <= 0 THEN v
    ELSE PullFromBelowLoop(Put(v, i, Mix(frac, At(v, i), At(v, i - 1))),
                           i - 1, frac)

\* Mutant: the nodes 1..i_out are updated in ascending order
RECURSIVE AscendingLoop(_, _, _, _)
AscendingLoop(v, i, i_out, frac) ==
    IF i > i_out THEN v
    ELSE AscendingLoop([v EXCEPT ![i + 1] =
                            RAdd(RMul(RSub(R(1), frac), v[i + 1]), RMul(frac, v[i]))],
                       i + 1, i_out, frac)

PullFromBelow_ascending(v, i_out, frac) == AscendingLoop(v, 1, i_out, frac)

\* Discharging, i_out > 0: the outlet node, then the descending loop.
PullFromBelow(v, i_out, frac) ==
    PullFromBelowLoop(Put(v, i_out, Mix(frac, At(v, i_out), At(v, i_out - 1))),
                      i_out - 1, frac)

\* for i in range(i, stop): Tn[i] = (1 - frac) * Tn[i] + frac * Tn[i + 1]
RECURSIVE PullFromAboveLoop(_, _, _, _)
PullFromAboveLoop(v, i, stop, frac) ==
    IF i >= stop THEN v
    ELSE PullFromAboveLoop(Put(v, i, Mix(frac, At(v, i), At(v, i + 1))),
                           i + 1, stop, frac)

\* Discharging, i_out = 0: the outlet node, then the ascending loop from 0.
PullFromAbove(c, v, i_out, frac) ==
    IF c.n_nodes > 1
    THEN PullFromAboveLoop(Put(v, i_out, Mix(frac, At(v, i_out), At(v, i_out + 1))),
                           0, c.n_nodes - 2, frac)
    ELSE v

\* Discharging branch (mf < 0)
DischargePhase(c, g, v, mf) ==
    LET i_out == c.discharge_outlet
        frac  == Frac(c, g, RAbs(mf))
    IN  IF i_out > 0 THEN PullFromBelow(v, i_out, frac)
        ELSE PullFromAbove(c, v, i_out, frac)

\* 3) Charging (+) / Discharging (-) / Idle (0)
AdvectionPhase(c, g, v, mf, tin) ==
    IF RLt(R(0), mf) THEN ChargePhase(c, g, v, mf, tin)
    ELSE IF RLt(mf, R(0)) THEN DischargePhase(c, g, v, mf)
    ELSE v

\* Tn as it stands before phase 3, from row T[t] and T_amb[t]
ThermalPhase(c, g, row, tamb) ==
    ConductionPhase(c, g, LossPhase(c, g, row, tamb))

----------------------------------------------------------------------------
(* Operations *)

\* The caller calls cfg.validate() itself (and goes on whether it raised).
Validate ==
    /\ pc = "caller"
    /\ Len(vcalls) < MaxValidate
    /\ LET v == validate(cfg)
       IN  /\ cfg' = v.cfg
           /\ vcalls' = Append(vcalls, CallRecord(cfg, v))
    /\ UNCHANGED <<Tin_charge, m_flow, T_amb, T_init, pc, geom, t, T, Q_loss, Tn>>

\* The caller calls simulate_stratified_tank: validation, input checks,
\* geometry and allocation, up to the head of the time march.  Rows 1..n of
\* np.empty are uninitialised and are written before they are read, so T
\* holds only the rows written so far.
Call ==
    /\ pc = "caller"
    /\ LET v == validate(cfg)
       IN  /\ cfg' = v.cfg
           /\ vcalls' = Append(vcalls, CallRecord(cfg, v))
           /\ IF ~v.ok \/ DimensionRaises(v.cfg, Tin_charge, m_flow, T_amb, T_init)
              THEN /\ pc' = "error"
                   /\ UNCHANGED <<geom, t, T, Q_loss, Tn>>
              ELSE /\ pc' = "run"
                   /\ geom' = Geometry(v.cfg)
                   /\ t' = 0
                   /\ T' = InitialField(T_init)
                   /\ Q_loss' = Zeros(v.cfg.n_steps)
                   /\ UNCHANGED Tn
    /\ UNCHANGED <<Tin_charge, m_flow, T_amb, T_init>>

\* One iteration of "for t in range(n)": row t+1 from row t.
Step ==
    /\ pc = "run"
    /\ t < cfg.n_steps
    /\ LET row == T[t + 1]
           tn  == ThermalPhase(cfg, geom, row, T_amb[t + 1])
       IN  /\ Tn' = tn
           /\ T' = Append(T, AdvectionPhase(cfg, geom, tn, m_flow[t + 1], Tin_charge[t + 1]))
           /\ Q_loss' = [Q_loss EXCEPT ![t + 1] = LossPower(geom, row, T_amb[t + 1])]
    /\ t' = t + 1
    /\ UNCHANGED <<cfg, Tin_charge, m_flow, T_amb, T_init, pc, geom, vcalls>>

\* The loop is over; the result dictionary is returned.
Return ==
    /\ pc = "run"
    /\ t = cfg.n_steps
    /\ pc' = "done"
    /\ UNCHANGED <<cfg, Tin_charge, m_flow, T_amb, T_init, geom, t, T, Q_loss, Tn, vcalls>>

\* "T_top": T[:, -1] and "T_bot": T[:, 0]
T_top == [r \in 1..Len(T) |-> T[r][Len(T[r])]]

T_bot == [r \in 1..Len(T) |-> T[r][1]]

Next == Call \/ Step \/ Return

NextCfg == Validate \/ Call \/ Step \/ Return

----------------------------------------------------------------------------
(* Inputs *)

\* TankConfig(...) with the tank of the model: height 6, volume 6, rho 1, cp 1
TankConfig(n, s, ua, k, dt, ci, do) ==
    [n_nodes |-> n, height |-> 6, volume |-> 6, rho |-> 1, cp |-> 1,
     ua_loss |-> ua, k_cond |-> k, dt |-> dt, n_steps |-> s,
     charge_inlet |-> ci, discharge_outlet |-> do]

\* np.full(n, x)
Full(n, x) == [i \in 1..n |-> x]

\* np.linspace(a, b, n), n >= 2
Linspace(a, b, n) ==
    [i \in 1..n |-> RAdd(a, RMul(R(i - 1), RDiv(RSub(b, a), R(n - 1))))]

RSet(S) == {R(x) : x \in S}

\* All series of length n over the values S
Series(S, n) == [1..n -> RSet(S)]

\* The state in which the caller holds the arguments and has called nothing.
Start(c, tin, mf, tamb, tinit) ==
    /\ cfg = c
    /\ Tin_charge = tin
    /\ m_flow = mf
    /\ T_amb = tamb
    /\ T_init = tinit
    /\ pc = "caller"
    /\ geom = NoGeometry
    /\ t = 0
    /\ T = <<>>
    /\ Q_loss = <<>>
    /\ Tn = <<>>
    /\ vcalls = <<>>

LossValues == {0, 3, 6}

CondValues == {0, 1, 36}

ScenarioLossValues == {0, 3, 24}

ScenarioCondValues == {0, 1, 18}

ScenarioDtValues == {1, 2}

DtValues == {1, 4}

\* scenario_idle_stratified, over every profile and series: no flow
InitIdle ==
    \E n \in 2..MaxNodes, s \in 1..MaxSteps :
    \E ua \in LossValues, k \in CondValues, dt \in DtValues :
    \E tin \in Series({1, 2}, s), tamb \in Series({0, 1}, s), ti \in Series({0, 1, 2}, n) :
        Start(TankConfig(n, s, ua, k, dt, 0, -1), tin, Full(s, R(0)), tamb, ti)

\* Flow only (no loss, no conduction): every port pair and flow schedule
Init ==
    \E n \in 2..MaxNodes, s \in 1..MaxSteps :
    \E dt \in DtValues, ci \in 0..(n - 1), do \in (-1)..(n - 1) :
    \E tin \in Series({0, 3}, s), mf \in Series({-1, 0, 1}, s), ti \in Series({1, 2}, n) :
        Start(TankConfig(n, s, 0, 0, dt, ci, do), tin, mf, Full(s, R(0)), ti)

\* scenario_full_charge: constant series, uniform profile
scenario_full_charge(c, hot, amb, init, m) ==
    Start(c, Full(c.n_steps, hot), Full(c.n_steps, m), Full(c.n_steps, amb),
          Full(c.n_nodes, init))

\* scenario_discharge_from_charged with T_init_from = None: linear profile
scenario_discharge_from_charged(c, hot, amb, lo, hi, m) ==
    Start(c, Full(c.n_steps, hot), Full(c.n_steps, m), Full(c.n_steps, amb),
          Linspace(lo, hi, c.n_nodes))

InitScenario ==
    \E n \in 2..MaxNodes, s \in 1..MaxSteps :
    \E ua \in ScenarioLossValues, k \in ScenarioCondValues, dt \in ScenarioDtValues :
    \E hot \in RSet({1, 2, 3}), amb \in RSet({0, 1, 4}) :
        \/ \E ci \in 0..(n - 1), init \in RSet({0, 1, 2}), m \in RSet({1, 2}) :
              scenario_full_charge(TankConfig(n, s, ua, k, dt, ci, -1), hot, amb, init, m)
        \/ \E do \in {-1, 0, n - 1}, lo \in RSet({0, 1}), hi \in RSet({0, 2, 4}),
              m \in RSet({-1, -2}) :
              scenario_discharge_from_charged(TankConfig(n, s, ua, k, dt, 0, do),
                                              hot, amb, lo, hi, m)

Spec == Init /\ [][Next]_vars

\* Configurations with fields in and out of range
CfgVariants(c) ==
    {c,
     [c EXCEPT !.height = 0], [c EXCEPT !.height = -1],
     [c EXCEPT !.volume = 0], [c EXCEPT !.volume = -1],
     [c EXCEPT !.rho = 0], [c EXCEPT !.cp = 0], [c EXCEPT !.cp = -1],
     [c EXCEPT !.dt = 0], [c EXCEPT !.dt = -1],
     [c EXCEPT !.height = 0, !.dt = 0]}

\* Lengths of Tin_charge, m_flow, T_amb, T_init: right, or off by one
LenVariants(s, n) ==
    {<<s, s, s, n>>,
     <<s + 1, s, s, n>>, <<s, Max(s - 1, 0), s, n>>, <<s, s, s + 1, n>>,
     <<s, s, s, n + 1>>, <<s, s, s, Max(n - 1, 0)>>,
     <<s, Max(s - 1, 0), s, n + 1>>}

\* Any configuration, valid or not, with arguments of any length
InitCfg ==
    \E n \in 0..MaxNodes, s \in 0..MaxSteps :
    \E ci \in (-1)..MaxNodes, do \in (-2)..MaxNodes :
    \E c \in CfgVariants(TankConfig(n, s, 0, 0, 1, ci, do)), l \in LenVariants(s, n) :
        Start(c, Full(l[1], R(1)), Full(l[2], R(1)), Full(l[3], R(0)), Full(l[4], R(0)))

SpecCfg == InitCfg /\ [][NextCfg]_vars

SpecIdle == InitIdle /\ [][Next]_vars

SpecScenario == InitScenario /\ [][Next]_vars

----------------------------------------------------------------------------
(* Properties: idle tank (SpecIdle) *)

\* m_flow[t] = 0 for all t
AllIdle == \A s \in 1..Len(m_flow) : m_flow[s] = R(0)

\* C1 (idle invariance): with ua_loss = 0, k_cond = 0 and m_flow all zero,
\* every row of the temperature field equals the initial profile exactly, and
\* the returned field has the n_steps + 1 rows 0..n_steps.
C1_IdleInvariance ==
    (cfg.ua_loss = 0 /\ cfg.k_cond = 0 /\ AllIdle) =>
        /\ \A r \in 1..Len(T) : T[r] = T_init
        /\ pc = "done" => Len(T) = cfg.n_steps + 1

C1_Witness ==
    /\ pc = "done"
    /\ cfg.ua_loss = 0 /\ cfg.k_cond = 0 /\ AllIdle
    /\ Len(T) >= 3
    /\ T_init[1] # T_init[2]
    /\ Tin_charge[1] # Tin_charge[2]
    /\ T_amb[1] # T_init[1]

\* sum over the nodes of mass_node * row[node]
Energy(row) == RSum([j \in 1..Len(row) |-> RMul(geom.mass_node, row[j])])

\* C2 (conduction-only energy conservation): with ua_loss = 0, m_flow all
\* zero and k_cond > 0, the sum over the nodes of mass_node * T[t][node] is
\* the same for every row t.
C2_ConductionConservesEnergy ==
    (cfg.ua_loss = 0 /\ cfg.k_cond > 0 /\ AllIdle) =>
        \A r \in 1..Len(T) : Energy(T[r]) = Energy(T[1])

C2_Witness ==
    /\ pc = "done"
    /\ cfg.ua_loss = 0 /\ cfg.k_cond > 0 /\ AllIdle
    /\ cfg.n_nodes >= 3
    /\ Len(T) >= 3
    /\ T[2] # T[1] /\ T[3] # T[2]

\* every T_amb[t] is strictly below every node of the initial profile
AmbBelowInit ==
    \A s \in 1..Len(T_amb), i \in 1..Len(T_init) : RLt(T_amb[s], T_init[i])

\* T[t+1][i] <= T[t][i] for every node i and step t
Cooling ==
    \A r \in 1..(Len(T) - 1) : \A i \in 1..Len(T[r]) : RLe(T[r + 1][i], T[r][i])

\* ua_node * dt <= mass_node * cp: the explicit loss step does not overshoot
LossStable ==
    RLe(RMul(ua_node(cfg), R(cfg.dt)), RMul(mass_node(cfg), R(cfg.cp)))

\* T_amb[t+1] <= T_amb[t] for every t
AmbNonIncreasing ==
    \A s \in 1..(Len(T_amb) - 1) : RLe(T_amb[s + 1], T_amb[s])

\* C3 as stated (loss-only monotonic cooling for every valid configuration):
\* with k_cond = 0, m_flow all zero, ua_loss > 0 and every T_amb[t] strictly
\* below the initial profile, T[t+1][i] <= T[t][i] for every node and step.
C3_Original ==
    (cfg.k_cond = 0 /\ cfg.ua_loss > 0 /\ AllIdle /\ AmbBelowInit) => Cooling

\* C3 as amended: the same, for configurations with ua_node * dt <=
\* mass_node * cp and a T_amb series that never rises.
C3_LossOnlyCooling ==
    (cfg.k_cond = 0 /\ cfg.ua_loss > 0 /\ AllIdle /\ AmbBelowInit
        /\ LossStable /\ AmbNonIncreasing) => Cooling

C3_Witness ==
    /\ pc = "done"
    /\ cfg.k_cond = 0 /\ cfg.ua_loss > 0 /\ AllIdle /\ AmbBelowInit
    /\ LossStable /\ AmbNonIncreasing
    /\ Len(T) >= 3
    /\ T_amb[2] # T_amb[1]
    /\ RLt(T[2][1], T[1][1]) /\ RLt(T[3][1], T[2][1])

----------------------------------------------------------------------------
(* Properties: charging and discharging scenarios (SpecScenario) *)

ConstSeries(s) == \A i \in 1..Len(s) : s[i] = s[1]

\* the initial profile is uniform
UniformInit == ConstSeries(T_init)

\* uniform profile, charge_inlet = 0, constant positive m_flow and constant
\* Tin_charge above the initial temperature
ChargingRun ==
    /\ UniformInit
    /\ cfg.charge_inlet = 0
    /\ ConstSeries(m_flow) /\ RLt(R(0), m_flow[1])
    /\ ConstSeries(Tin_charge) /\ RLt(T_init[1], Tin_charge[1])

\* T[t+1][0] >= T[t][0] and T[t][0] <= Tin_charge for every t
BottomRisesToInlet ==
    /\ \A r \in 1..(Len(T) - 1) : RLe(T[r][1], T[r + 1][1])
    /\ \A r \in 1..Len(T) : RLe(T[r][1], Tin_charge[1])

\* C4 as stated (charging front monotonicity for every valid configuration):
\* from a uniform profile with charge_inlet = 0, constant positive m_flow and
\* constant Tin_charge above the initial temperature, the bottom node never
\* falls and never exceeds Tin_charge.
C4_Original == ChargingRun => BottomRisesToInlet

\* C4 as amended: the same, for configurations with ua_loss = 0 and
\* k_cond = 0.
C4_ChargingFront ==
    (ChargingRun /\ cfg.ua_loss = 0 /\ cfg.k_cond = 0) => BottomRisesToInlet

C4_Witness ==
    /\ pc = "done"
    /\ ChargingRun /\ cfg.ua_loss = 0 /\ cfg.k_cond = 0
    /\ Len(T) >= 3
    /\ RLt(T[1][1], T[2][1]) /\ RLt(T[2][1], T[3][1])
    /\ RLt(T[3][1], Tin_charge[1])

\* the initial profile increases linearly from bottom to top
LinearIncreasing ==
    /\ \A i \in 1..(Len(T_init) - 1) : RLt(T_init[i], T_init[i + 1])
    /\ \A i \in 1..(Len(T_init) - 2) :
          RSub(T_init[i + 1], T_init[i]) = RSub(T_init[i + 2], T_init[i + 1])

\* linear profile, discharge_outlet at the top node (as n_nodes - 1 or as the
\* sentinel -1), constant negative m_flow
DischargingRun ==
    /\ LinearIncreasing
    /\ cfg.discharge_outlet \in {-1, cfg.n_nodes - 1}
    /\ ConstSeries(m_flow) /\ RLt(m_flow[1], R(0))

\* T[t+1][n_nodes-1] <= T[t][n_nodes-1] for every t
TopFalls ==
    \A r \in 1..(Len(T) - 1) : RLe(T[r + 1][cfg.n_nodes], T[r][cfg.n_nodes])

\* C5 as stated (discharge outlet tracks upstream, for every valid
\* configuration): from a linearly increasing profile with the outlet at the
\* top and constant negative m_flow, the top node never rises.
C5_Original == DischargingRun => TopFalls

\* C5 as amended: the same, for configurations with ua_loss = 0 and
\* k_cond = 0.
C5_DischargeTopFalls ==
    (DischargingRun /\ cfg.ua_loss = 0 /\ cfg.k_cond = 0) => TopFalls

C5_Witness ==
    /\ pc = "done"
    /\ DischargingRun /\ cfg.ua_loss = 0 /\ cfg.k_cond = 0
    /\ vcalls[1].before.discharge_outlet = -1
    /\ cfg.n_nodes >= 3
    /\ Len(T) >= 3
    /\ RLt(T[2][cfg.n_nodes], T[1][cfg.n_nodes])
    /\ RLt(T[3][cfg.n_nodes], T[2][cfg.n_nodes])

\* 2 * G_cond * dt <= mass_node * cp: the explicit conduction step keeps the
\* weight of a node's own temperature non-negative
CondStable ==
    RLe(RMul(RMul(R(2), G_cond(cfg)), R(cfg.dt)), RMul(mass_node(cfg), R(cfg.cp)))

\* bottom-inlet charging from a uniform profile at the constant ambient
\* temperature, constant positive m_flow with m_flow * dt < mass_node,
\* constant Tin_charge above the initial temperature, loss and conduction on
PartialChargeRun ==
    /\ ChargingRun
    /\ ConstSeries(T_amb) /\ T_amb[1] = T_init[1]
    /\ RLt(RMul(m_flow[1], R(cfg.dt)), mass_node(cfg))
    /\ cfg.ua_loss > 0 /\ cfg.k_cond > 0

\* final row: bottom > initial temperature, bottom <= Tin_charge, top < bottom
PartialCharge ==
    LET last == T[Len(T)]
    IN  /\ RLt(T_init[1], last[1])
        /\ RLe(last[1], Tin_charge[1])
        /\ RLt(last[cfg.n_nodes], last[1])

\* C8 as stated (partial stratified charge, for the whole family of the
\* end-to-end scenario): the final row has bottom > initial temperature,
\* bottom <= Tin_charge and top < bottom.
C8_Original == (pc = "done" /\ PartialChargeRun) => PartialCharge

\* C8 as amended: the same, for the configurations of the family with
\* ua_node * dt <= mass_node * cp and 2 * G_cond * dt <= mass_node * cp.
C8_PartialCharge ==
    (pc = "done" /\ PartialChargeRun /\ LossStable /\ CondStable) => PartialCharge

C8_Witness ==
    /\ pc = "done"
    /\ PartialChargeRun /\ LossStable /\ CondStable
    /\ cfg.n_nodes >= 3
    /\ Len(T) >= 3
    /\ RLt(T_init[1], T[Len(T)][cfg.n_nodes])

----------------------------------------------------------------------------
(* Properties: the advection phase of a discharging step (Spec) *)

\* frac of the latest step, min(1, |m_flow[t]| * dt / mass_node)
LastFrac == Frac(cfg, geom, RAbs(m_flow[t]))

\* the latest step was a discharging one
Discharged == t >= 1 /\ RLt(m_flow[t], R(0))

\* T[i] <- (1-frac)*T[i] + frac*T[i+1] applied once to each node i of
\* 0..n_nodes-3 and to no other node.  In increasing order no update reads a
\* value written before it, so every update reads v.
MixedOnceFromAbove(v, frac) ==
    [j \in 1..Len(v) |->
        IF j <= Len(v) - 2 THEN Mix(frac, v[j], v[j + 1]) ELSE v[j]]

\* C9 (bottom-outlet discharge): in a step with m_flow[t] < 0 and
\* discharge_outlet = 0 the advection phase applies T[i] <- (1-frac)*T[i] +
\* frac*T[i+1] exactly once to each node i from 0 to n_nodes-3 and changes no
\* other node; node 0 is mixed with node 1 at most once.
C9_BottomOutletMixesOnce ==
    (Discharged /\ cfg.discharge_outlet = 0) =>
        T[t + 1] = MixedOnceFromAbove(Tn, LastFrac)

\* C10 (top-side discharge is a simultaneous update): in a step with
\* m_flow[t] < 0 and discharge_outlet = i_out > 0, every node i of 1..i_out
\* becomes (1-frac)*Tn[i] + frac*Tn[i-1] with both values taken before the
\* advection phase, and node 0 and the nodes above i_out keep their value.
C10_DischargeSimultaneous ==
    (Discharged /\ cfg.discharge_outlet > 0) =>
        \A i \in 0..(cfg.n_nodes - 1) :
            At(T[t + 1], i) =
                IF 1 <= i /\ i <= cfg.discharge_outlet
                THEN Mix(LastFrac, At(Tn, i), At(Tn, i - 1))
                ELSE At(Tn, i)

C10_Witness ==
    /\ Discharged
    /\ cfg.discharge_outlet >= 2
    /\ RLt(R(0), LastFrac) /\ RLt(LastFrac, R(1))
    /\ At(Tn, 0) # At(Tn, 1) /\ At(Tn, 1) # At(Tn, 2)
    /\ At(T[t + 1], 1) # At(Tn, 1) /\ At(T[t + 1], 2) # At(Tn, 2)

\* alpha of the latest step, (m_flow[t] * dt) / (mass_node + m_flow[t] * dt)
LastAlpha == Alpha(cfg, geom, m_flow[t])

\* the latest step was a charging one
Charged == t >= 1 /\ RLt(R(0), m_flow[t])

\* the initial profile values and the Tin_charge[s] of the charging steps s
\* before row r (row r is T[r], written by the steps 1..r-1)
Sources(r) ==
    {T_init[i] : i \in 1..Len(T_init)}
        \cup {Tin_charge[s] : s \in {u \in 1..(r - 1) : RLt(R(0), m_flow[u])}}

RMinOf(S) == CHOOSE x \in S : \A y \in S : RLe(x, y)

RMaxOf(S) == CHOOSE x \in S : \A y \in S : RLe(y, x)

\* 0 <= w <= 1
UnitWeight(w) == RLe(R(0), w) /\ RLe(w, R(1))

\* C11 (maximum principle for advection): with ua_loss = 0 and k_cond = 0,
\* every temperature of every row T[t] lies between the minimum and the
\* maximum of the initial profile values and the Tin_charge[s] of the
\* charging steps s < t, and the mixing weights alpha and frac of every step
\* lie in [0, 1].
C11_MaximumPrinciple ==
    (cfg.ua_loss = 0 /\ cfg.k_cond = 0) =>
        /\ \A r \in 1..Len(T) :
              LET lo == RMinOf(Sources(r))
                  hi == RMaxOf(Sources(r))
              IN  \A i \in 1..Len(T[r]) : RLe(lo, T[r][i]) /\ RLe(T[r][i], hi)
        /\ Charged => (UnitWeight(LastAlpha) /\ UnitWeight(LastFrac))
        /\ Discharged => UnitWeight(LastFrac)

C11_Witness ==
    /\ pc = "done"
    /\ cfg.ua_loss = 0 /\ cfg.k_cond = 0
    /\ cfg.n_nodes >= 3
    /\ cfg.charge_inlet > 0
    /\ Len(T) >= 3
    /\ RLt(R(0), m_flow[1]) /\ RLt(m_flow[2], R(0))
    /\ T_init[1] # T_init[2]
    /\ RLt(RMaxOf(Sources(1)), Tin_charge[1])
    /\ RLt(Tin_charge[2], RMinOf(Sources(1)))
    /\ RLt(RMaxOf(Sources(1)), At(T[3], cfg.charge_inlet))
    /\ RLt(At(T[3], cfg.charge_inlet), Tin_charge[1])
    /\ T[3] # T[2]

----------------------------------------------------------------------------
(* Properties: validation and input checks (SpecCfg) *)

\* The configurations C7 lists as invalid
InvalidAsClaimed(c) ==
    \/ c.n_nodes < 2
    \/ c.height <= 0
    \/ c.volume <= 0
    \/ c.rho <= 0
    \/ c.cp <= 0
    \/ c.dt <= 0
    \/ c.n_steps < 1
    \/ c.charge_inlet \notin 0..(c.n_nodes - 1)
    \/ (IF c.discharge_outlet = -1 THEN c.n_nodes - 1 ELSE c.discharge_outlet)
           \notin 0..(c.n_nodes - 1)

\* The validate call made by simulate_stratified_tank, once it was called
LastCall == vcalls[Len(vcalls)]

\* C7 (configuration validation): every validate call on a configuration
\* listed as invalid fails, and so does simulate_stratified_tank; from the
\* second validate call on, the call leaves the object (discharge_outlet
\* included) unchanged and has the outcome of the call before it.
C7_Validation ==
    /\ \A i \in 1..Len(vcalls) : InvalidAsClaimed(vcalls[i].before) => ~vcalls[i].ok
    /\ (pc # "caller" /\ ~LastCall.ok) => pc = "error"
    /\ \A i \in 2..Len(vcalls) :
          /\ vcalls[i].ok = vcalls[i - 1].ok
          /\ vcalls[i].after = vcalls[i].before

C7_Witness ==
    /\ Len(vcalls) >= 3
    /\ pc = "run"
    /\ vcalls[1].before.discharge_outlet = -1
    /\ vcalls[1].ok
    /\ vcalls[1].after.discharge_outlet = cfg.n_nodes - 1
    /\ vcalls[2].ok /\ vcalls[3].ok

\* one of the argument lengths is wrong
DimsWrong ==
    \/ Len(Tin_charge) # cfg.n_steps
    \/ Len(m_flow) # cfg.n_steps
    \/ Len(T_amb) # cfg.n_steps
    \/ Len(T_init) # cfg.n_nodes

\* no row, no loss entry and no local of the time march exists
NothingComputed ==
    T = <<>> /\ Q_loss = <<>> /\ Tn = <<>> /\ t = 0 /\ geom = NoGeometry

\* C6 as stated (dimension checks fail fast): with an argument of the wrong
\* length the call ends in an error before any time step: no row is computed,
\* nothing is returned, and nothing the caller can observe has changed.
C6_Original ==
    DimsWrong =>
        /\ pc \in {"caller", "error"}
        /\ pc = "error" => (NothingComputed /\ LastCall.after = LastCall.before)

\* C6 as amended: the same, except that the call may have replaced the
\* sentinel discharge_outlet = -1 of a valid configuration by n_nodes - 1.
C6_DimensionChecksFailFast ==
    DimsWrong =>
        /\ pc \in {"caller", "error"}
        /\ pc = "error" =>
              /\ NothingComputed
              /\ LastCall.after =
                    IF LastCall.before.discharge_outlet = -1
                       /\ ~InvalidAsClaimed(LastCall.before)
                    THEN [LastCall.before EXCEPT
                             !.discharge_outlet = LastCall.before.n_nodes - 1]
                    ELSE LastCall.before

C6_Witness ==
    /\ pc = "error"
    /\ Len(m_flow) = cfg.n_steps - 1
    /\ Len(Tin_charge) = cfg.n_steps /\ Len(T_amb) = cfg.n_steps
    /\ Len(T_init) = cfg.n_nodes
    /\ ~InvalidAsClaimed(cfg)
    /\ Len(vcalls) = 1
    /\ LastCall.before.discharge_outlet = -1
    /\ cfg.discharge_outlet = cfg.n_nodes - 1

====
